---- MODULE Spec2Model ----
(***************************************************************************)
(* The ToDo gRPC service (package v1, toDoServiceServer) over its SQL      *)
(* table ToDo(ID, Title, Description, Reminder) and its database/sql       *)
(* connection pool.                                                        *)
(*                                                                         *)
(* Every request is handled on its own goroutine; at most NumReq handlers  *)
(* run at a time.  A handler takes two steps, one for each time it waits   *)
(* on shared state:                                                        *)
(*   Enter    checkAPI(req.Api), then s.connect(ctx) takes a connection    *)
(*            from the pool (or waits for one);                            *)
(*   body     the rest of the handler: the conversion of the reminder, the *)
(*            one statement or query, the decoding of its result, the      *)
(*            deferred Close calls and the return.                         *)
(* The handlers share no state but the pool and the table and keep nothing *)
(* of the request between the two steps, so the model counts the handlers  *)
(* that stand between the steps and draws the fields of a request where    *)
(* the code first reads them.  `out` is what the step just taken read and  *)
(* what it returned to the caller.                                         *)
(***************************************************************************)
EXTENDS Integers, Sequences, FiniteSets, TLC

VARIABLES
    table,      \* the rows of table ToDo
    lastId,     \* the table's AUTO_INCREMENT counter
    inUse,      \* connections of s.db checked out of the pool
    running,    \* per operation: the handlers that hold c and have yet to run their body
    crashed,    \* a handler panicked: the process is gone
    out,        \* what the step just taken read and returned
    submitted   \* per identifier returned by Create and not updated or deleted since:
                \* the ToDo that was submitted

vars == <<table, lastId, inUse, running, crashed, out, submitted>>

----------------------------------------------------------------------------
(* Bounds of the model *)

NumReq == 2
MaxId == 2
MaxOpenConns == 2

Ids == 1..MaxId

----------------------------------------------------------------------------
(* Values *)

apiVersion == "v1"

Nil == [isNil |-> TRUE]

Ops == {"Create", "Read", "Update", "Delete", "ReadAll"}

Apis == {"", "v1", "v2"}

\* The wire timestamp's Seconds are counted in days (86400 s) so that the
\* library's limits fit the model checker's integers:
\* minValidSeconds = -62135596800 s (0001-01-01), maxValidSeconds = 253402300800 s (10000-01-01).
MinValidSeconds == -719162
MaxValidSeconds == 2932897
NanosPerSecond == 1000000000

Reminder1 == [Seconds |-> MinValidSeconds, Nanos |-> 0]
Reminder2 == [Seconds |-> MaxValidSeconds - 1, Nanos |-> NanosPerSecond - 1]

InvalidReminders ==
    { Nil,
      [Seconds |-> MinValidSeconds - 1, Nanos |-> 0],
      [Seconds |-> MaxValidSeconds, Nanos |-> 0],
      [Seconds |-> 0, Nanos |-> -1],
      [Seconds |-> 0, Nanos |-> NanosPerSecond] }

\* The ToDo messages a request may carry (Nil: the field is absent).
ToDos(ids) ==
    { [Id |-> i, Title |-> "Buy milk", Description |-> "2%", Reminder |-> rem] :
        i \in ids, rem \in InvalidReminders \cup {Reminder1} }
    \cup
    { [Id |-> i, Title |-> "Buy oat milk", Description |-> "", Reminder |-> Reminder2] :
        i \in ids }

\* The generated getters: nil-safe.
GetId(td) == IF td = Nil THEN 0 ELSE td.Id
GetTitle(td) == IF td = Nil THEN "" ELSE td.Title
GetDescription(td) == IF td = Nil THEN "" ELSE td.Description
GetReminder(td) == IF td = Nil THEN Nil ELSE td.Reminder

----------------------------------------------------------------------------
(* Replies *)

\* `out` before any step was taken.
NoReply == [step |-> "none", resp |-> Nil]

OK(val) == [code |-> "OK", msg |-> "", val |-> val]
Errorf(code, msg, val) == [code |-> code, msg |-> msg, val |-> val]
\* A run-time panic of the handler's goroutine: nothing is returned.
Panic(msg) == [code |-> "Panic", msg |-> msg, val |-> Nil]

\* What a step read and what it returned (resp = Nil: the handler goes on).
\* fault names the storage call that failed in the step, "none" if none did.
EnterStep(o, api, fault, resp) ==
    [step |-> "enter", op |-> o, api |-> api, fault |-> fault, resp |-> resp]
\* id and todo: the fields of the request the step read (0 and Nil: not read, or absent).
BodyStep(o, id, td, fault, resp) ==
    [step |-> "body", op |-> o, id |-> id, todo |-> td, fault |-> fault, resp |-> resp]

----------------------------------------------------------------------------
(* checkAPI *)

\* checkAPI without its test for the empty string.
checkAPI_NoEmptyTest(api) ==
    IF apiVersion # api
    THEN Errorf("Unimplemented", "unsupported API version", <<apiVersion, api>>)
    ELSE Nil

checkAPI(api) ==
    IF Len(api) > 0 /\ apiVersion # api
    THEN Errorf("Unimplemented", "unsupported API version", <<apiVersion, api>>)
    ELSE Nil

----------------------------------------------------------------------------
(* ptypes.Timestamp and ptypes.TimestampProto *)

\* validateTimestamp with its upper test on Nanos off by one.
validateTimestamp_NanosOffByOne(ts) ==
    IF ts = Nil THEN "nil Timestamp"
    ELSE IF ts.Seconds < MinValidSeconds THEN "before 0001-01-01"
    ELSE IF ts.Seconds >= MaxValidSeconds THEN "after 10000-01-01"
    ELSE IF ts.Nanos < 0 \/ ts.Nanos > NanosPerSecond THEN "nanos not in range"
    ELSE "ok"

validateTimestamp(ts) ==
    IF ts = Nil THEN "nil Timestamp"
    ELSE IF ts.Seconds < MinValidSeconds THEN "before 0001-01-01"
    ELSE IF ts.Seconds >= MaxValidSeconds THEN "after 10000-01-01"
    ELSE IF ts.Nanos < 0 \/ ts.Nanos >= NanosPerSecond THEN "nanos not in range"
    ELSE "ok"

\* time.Unix(sec, nsec).UTC(): nsec outside [0, 1e9) is carried into sec.
Unix(sec, nsec) ==
    LET carry == IF nsec < 0 THEN -(((-nsec) + NanosPerSecond - 1) \div NanosPerSecond)
                 ELSE nsec \div NanosPerSecond
    IN [sec |-> sec + carry, nsec |-> nsec - carry * NanosPerSecond]

Timestamp(ts) ==
    [t |-> IF ts = Nil THEN Unix(0, 0) ELSE Unix(ts.Seconds, ts.Nanos),
     err |-> validateTimestamp(ts)]

\* TimestampProto that keeps microseconds only.
TimestampProto_Micros(t) ==
    LET ts == [Seconds |-> t.sec, Nanos |-> (t.nsec \div 1000) * 1000]
    IN [ts |-> ts, err |-> validateTimestamp(ts)]

TimestampProto(t) ==
    LET ts == [Seconds |-> t.sec, Nanos |-> t.nsec]
    IN [ts |-> ts, err |-> validateTimestamp(ts)]

----------------------------------------------------------------------------
(* The statements, as the storage engine executes them *)

\* INSERT INTO ToDo(Title, Description, Reminder) VALUES(?, ?, ?)
Insert(tbl, last, title, description, reminder) ==
    [table |-> tbl \cup { [ID |-> last + 1, Title |-> title,
                          Description |-> description, Reminder |-> reminder] },
     id |-> last + 1]

\* The rows of a result set, in the order of the primary key.
RECURSIVE OrderById(_)
OrderById(rs) ==
    IF rs = {} THEN <<>>
    ELSE LET first == CHOOSE r \in rs : \A q \in rs : r.ID <= q.ID
         IN <<first>> \o OrderById(rs \ {first})

\* The query of Read without its WHERE clause.
SelectById_NoWhere(tbl, id) == OrderById(tbl)

\* SELECT ID, Title, Description, Reminder FROM ToDo WHERE ID=?
SelectById(tbl, id) == OrderById({ row \in tbl : row.ID = id })

\* SELECT ID, Title, Description, Reminder FROM ToDo
SelectAll(tbl) == OrderById(tbl)

\* The statement of Update as an insert-or-update.
UpdateById_Upsert(tbl, id, title, description, reminder) ==
    LET hit == { row \in tbl : row.ID = id }
        new == [ID |-> id, Title |-> title,
                Description |-> description, Reminder |-> reminder]
    IN [table |-> (tbl \ hit) \cup {new},
        matched |-> Cardinality(hit),
        changed |-> Cardinality(hit \ {new})]

\* UPDATE ToDo SET Title=?, Description=?, Reminder=? WHERE ID=?
\* matched: the rows of the WHERE clause; changed: those whose values differ.
UpdateById(tbl, id, title, description, reminder) ==
    LET hit == { row \in tbl : row.ID = id }
        new(row) == [ID |-> row.ID, Title |-> title,
                     Description |-> description, Reminder |-> reminder]
    IN [table |-> (tbl \ hit) \cup { new(row) : row \in hit },
        matched |-> Cardinality(hit),
        changed |-> Cardinality({ row \in hit : new(row) # row })]

\* The statement of Delete without its WHERE clause.
DeleteById_NoWhere(tbl, id) ==
    [table |-> {}, affected |-> Cardinality(tbl)]

\* DELETE FROM ToDo WHERE ID=?
DeleteById(tbl, id) ==
    LET hit == { row \in tbl : row.ID = id }
    IN [table |-> tbl \ hit, affected |-> Cardinality(hit)]

----------------------------------------------------------------------------
(* The state after NewToDoServiceServer(db) on a freshly created table *)

Init ==
    /\ table = {}
    /\ lastId = 0
    /\ inUse = 0
    /\ running = [o \in Ops |-> 0]
    /\ crashed = FALSE
    /\ out = NoReply
    /\ submitted = [i \in {} |-> Nil]

----------------------------------------------------------------------------
(* The pool and the handlers' common steps *)

RECURSIVE Sum(_, _)
Sum(f, S) == IF S = {} THEN 0 ELSE LET x == CHOOSE x \in S : TRUE IN f[x] + Sum(f, S \ {x})

\* The handlers between their two steps.
InFlight == Sum(running, Ops)

\* (*sql.DB).conn: a connection is handed out at once only below the pool's limit.
PoolHasFree == inUse < MaxOpenConns

\* (*sql.Conn).Close and (*sql.Rows).Close: the connection goes back to the pool.
Close(n) == n - 1

\* Return with c.Close() called on the successful path only, not deferred.
Return_CloseOnSuccess(deferred, n, reply) ==
    /\ inUse' = IF deferred /\ reply.resp.code = "OK" THEN Close(n) ELSE n
    /\ crashed' = (reply.resp.code = "Panic")
    /\ out' = reply

\* A handler ends with `reply` while the pool counts n connections checked
\* out: if `defer c.Close()` was reached (deferred), it runs now; then the caller
\* gets the reply or, on a panic, the process ends.
Return(deferred, n, reply) ==
    /\ inUse' = IF deferred THEN Close(n) ELSE n
    /\ crashed' = (reply.resp.code = "Panic")
    /\ out' = reply

\* The handler's first two statements: checkAPI(req.Api), which touches nothing
\* shared, then c, err := s.connect(ctx), where s.db.Conn(ctx) waits for a free
\* connection or fails.
Enter(o) ==
    /\ ~crashed
    /\ InFlight < NumReq
    /\ o = "Create" => lastId + running["Create"] < MaxId
    /\ UNCHANGED <<table, lastId, submitted>>
    /\ \E api \in Apis :
        LET err == checkAPI(api) IN
        IF err # Nil
        THEN /\ Return(FALSE, inUse, EnterStep(o, api, "none", err))
             /\ UNCHANGED running
        ELSE \/ /\ PoolHasFree
                /\ inUse' = inUse + 1
                /\ running' = [running EXCEPT ![o] = @ + 1]
                /\ out' = EnterStep(o, api, "none", Nil)
                /\ UNCHANGED crashed
             \/ /\ Return(FALSE, inUse, EnterStep(o, api, "Conn",
                        Errorf("Internal", "failed to connect to database", Nil)))
                /\ UNCHANGED running

\* A handler of o stands after its `defer c.Close()`; the step now taken ends it.
InBody(o) ==
    /\ ~crashed
    /\ running[o] > 0
    /\ running' = [running EXCEPT ![o] = @ - 1]

----------------------------------------------------------------------------
(* rows.Scan and the decoding of rows *)

\* (*sql.Rows).Scan: every destination must be a pointer.
Scan(dests) ==
    IF \E i \in 1..Len(dests) : dests[i] # "pointer"
    THEN "destination not a pointer"
    ELSE "ok"

\* Read: rows.Scan(&td.Id, &td.Title, &td.Description, &reminder)
ReadDests == <<"pointer", "pointer", "pointer", "pointer">>

\* ReadAll: rows.Scan(td.Id, td.Title, td.Description, &reminder)
ReadAllDests == <<"value", "value", "value", "pointer">>

\* The ToDo message decoded from a scanned row and its converted reminder.
Decode(row, ts) ==
    [Id |-> row.ID, Title |-> row.Title, Description |-> row.Description, Reminder |-> ts]

\* ReadAll's `for rows.Next()` loop over the rows not yet read: the list it
\* has appended so far, or the error it returns.
RECURSIVE ReadAllLoop(_, _)
ReadAllLoop(rows, list) ==
    IF rows = <<>> THEN [list |-> list, err |-> Nil]
    ELSE IF Scan(ReadAllDests) # "ok"
    THEN [list |-> list,
          err |-> Errorf("Internal", "failed to retrieve field value from rows", Scan(ReadAllDests))]
    ELSE LET tp == TimestampProto(Head(rows).Reminder) IN
         IF tp.err # "ok"
         THEN [list |-> list,
               err |-> Errorf("Internal", "reminder field has invalid format", tp.err)]
         ELSE ReadAllLoop(Tail(rows), Append(list, Decode(Head(rows), tp.ts)))

----------------------------------------------------------------------------
(* The handlers *)

\* Create, from `reminder, err := ptypes.Timestamp(req.ToDo.Reminder)` on.
CreateBody ==
    /\ InBody("Create")
    /\ \E td \in ToDos({0}) \cup {Nil}, fault \in {"none", "ExecContext", "LastInsertId"} :
        IF td = Nil
        THEN \* req.ToDo.Reminder dereferences the nil req.ToDo
             /\ fault = "none"
             /\ Return(TRUE, inUse, BodyStep("Create", 0, td, "none",
                    Panic("invalid memory address or nil pointer dereference")))
             /\ UNCHANGED <<table, lastId, submitted>>
        ELSE LET tm == Timestamp(td.Reminder) IN
        IF tm.err # "ok"
        THEN /\ fault = "none"
             /\ Return(TRUE, inUse, BodyStep("Create", 0, td, "none",
                    Errorf("InvalidArgument", "reminder field has invalid format", tm.err)))
             /\ UNCHANGED <<table, lastId, submitted>>
        ELSE IF fault = "ExecContext"
        THEN /\ Return(TRUE, inUse, BodyStep("Create", 0, td, fault,
                    Errorf("Internal", "failed to insert into ToDo", Nil)))
             /\ UNCHANGED <<table, lastId, submitted>>
        ELSE LET res == Insert(table, lastId, GetTitle(td), GetDescription(td), tm.t) IN
             /\ table' = res.table
             /\ lastId' = res.id
             /\ IF fault = "LastInsertId"
                THEN /\ Return(TRUE, inUse, BodyStep("Create", 0, td, fault,
                            Errorf("Internal", "failed to retrive id for created ToDo", Nil)))
                     /\ UNCHANGED submitted
                ELSE /\ Return(TRUE, inUse, BodyStep("Create", 0, td, "none",
                            OK([Api |-> apiVersion, Id |-> res.id])))
                     /\ submitted' = [i \in DOMAIN submitted \cup {res.id} |->
                                        IF i = res.id THEN td ELSE submitted[i]]

\* Read, from `rows, err := s.db.QueryContext(...)` on.  The query runs on the
\* pool s.db, not on c: it needs a second connection, which rows holds until
\* rows.Close().
ReadBody ==
    /\ InBody("Read")
    /\ \E id \in Ids, fault \in {"none", "QueryContext", "rows.Err", "Scan"} :
        IF fault = "QueryContext"
        THEN /\ Return(TRUE, inUse, BodyStep("Read", id, Nil, fault,
                    Errorf("Internal", "failed to select from ToDo", Nil)))
             /\ UNCHANGED <<table, lastId, submitted>>
        ELSE
        /\ PoolHasFree
        /\ UNCHANGED <<table, lastId, submitted>>
        /\ LET rows == SelectById(table, id)
               held == Close(inUse + 1)
           IN
           IF rows = <<>>
           THEN IF fault = "rows.Err"
                THEN Return(TRUE, held, BodyStep("Read", id, Nil, fault,
                        Errorf("Internal", "failed to retrieve data from ToDo", Nil)))
                ELSE /\ fault = "none"
                     /\ Return(TRUE, held, BodyStep("Read", id, Nil, "none",
                            Errorf("NotFound", "ToDo with ID is not found", id)))
           ELSE IF fault = "Scan" \/ Scan(ReadDests) # "ok"
           THEN Return(TRUE, held, BodyStep("Read", id, Nil, fault,
                    Errorf("Internal", "failed to retrieve field value from ToDo row", Nil)))
           ELSE LET tp == TimestampProto(rows[1].Reminder) IN
           /\ fault = "none"
           /\ IF tp.err # "ok"
              THEN Return(TRUE, held, BodyStep("Read", id, Nil, "none",
                        Errorf("Internal", "reminder field has invalid format", tp.err)))
              ELSE IF Len(rows) > 1
              THEN Return(TRUE, held, BodyStep("Read", id, Nil, "none",
                        Errorf("Internal", "found multiple ToDo rows with ID", id)))
              ELSE Return(TRUE, held, BodyStep("Read", id, Nil, "none",
                        OK([Api |-> apiVersion, ToDo |-> Decode(rows[1], tp.ts)])))

\* The count (sql.Result).RowsAffected reports for an UPDATE: the rows matched
\* or the rows changed, as the driver's connection is configured.
RowsAffected(res) == {res.matched, res.changed}

\* Update, from `reminder, err := ptypes.Timestamp(req.ToDo.GetReminder())` on.
UpdateBody ==
    /\ InBody("Update")
    /\ \E td \in ToDos(Ids) \cup {Nil}, fault \in {"none", "ExecContext", "RowsAffected"} :
        LET tm == Timestamp(GetReminder(td))
            id == GetId(td)
        IN
        IF tm.err # "ok"
        THEN /\ fault = "none"
             /\ Return(TRUE, inUse, BodyStep("Update", GetId(td), td, "none",
                    Errorf("InvalidArgument", "reminder filed has invalid format", tm.err)))
             /\ UNCHANGED <<table, lastId, submitted>>
        ELSE IF fault = "ExecContext"
        THEN /\ Return(TRUE, inUse, BodyStep("Update", id, td, fault,
                    Errorf("Internal", "failed to update ToDo", Nil)))
             /\ UNCHANGED <<table, lastId, submitted>>
        ELSE LET res == UpdateById(table, id, GetTitle(td), GetDescription(td), tm.t) IN
             /\ table' = res.table
             /\ submitted' = [i \in DOMAIN submitted \ {id} |-> submitted[i]]
             /\ UNCHANGED lastId
             /\ IF fault = "RowsAffected"
                THEN Return(TRUE, inUse, BodyStep("Update", id, td, fault,
                        Errorf("Internal", "failed to retrieve rows affected", Nil)))
                ELSE \E rows \in RowsAffected(res) :
                        IF rows = 0
                        THEN Return(TRUE, inUse, BodyStep("Update", id, td, "none",
                                Errorf("NotFound", "ToDo with ID is not found", id)))
                        ELSE Return(TRUE, inUse, BodyStep("Update", id, td, "none",
                                OK([Api |-> apiVersion, Updated |-> rows])))

\* Delete, from `res, err := c.ExecContext(ctx, "DELETE ...")` on.
DeleteBody ==
    /\ InBody("Delete")
    /\ \E id \in Ids, fault \in {"none", "ExecContext", "RowsAffected"} :
        IF fault = "ExecContext"
        THEN /\ Return(TRUE, inUse, BodyStep("Delete", id, Nil, fault,
                    Errorf("Internal", "failed to delete ToDo", Nil)))
             /\ UNCHANGED <<table, lastId, submitted>>
        ELSE LET res == DeleteById(table, id) IN
             /\ table' = res.table
             /\ submitted' = [i \in DOMAIN submitted \ {id} |-> submitted[i]]
             /\ UNCHANGED lastId
             /\ IF fault = "RowsAffected"
                THEN Return(TRUE, inUse, BodyStep("Delete", id, Nil, fault,
                        Errorf("Internal", "failed to retrieve rows affected", Nil)))
                ELSE IF res.affected = 0
                THEN Return(TRUE, inUse, BodyStep("Delete", id, Nil, "none",
                        Errorf("NotFound", "ToDo with ID is not found", id)))
                ELSE Return(TRUE, inUse, BodyStep("Delete", id, Nil, "none",
                        OK([Api |-> apiVersion, Deleted |-> res.affected])))

\* ReadAll, from `rows, err := c.QueryContext(...)` on.
ReadAllBody ==
    /\ InBody("ReadAll")
    /\ UNCHANGED <<table, lastId, submitted>>
    /\ \E fault \in {"none", "QueryContext", "rows.Err"} :
        IF fault = "QueryContext"
        THEN Return(TRUE, inUse, BodyStep("ReadAll", 0, Nil, fault,
                Errorf("Internal", "failed to select from ToDo", Nil)))
        ELSE LET loop == ReadAllLoop(SelectAll(table), <<>>) IN
             IF loop.err # Nil
             THEN /\ fault = "none"
                  /\ Return(TRUE, inUse, BodyStep("ReadAll", 0, Nil, "none", loop.err))
             ELSE IF fault = "rows.Err"
             THEN Return(TRUE, inUse, BodyStep("ReadAll", 0, Nil, fault,
                    Errorf("Internal", "failed to retrieve data from ToDo rows", Nil)))
             ELSE Return(TRUE, inUse, BodyStep("ReadAll", 0, Nil, "none",
                    OK([Api |-> apiVersion, ToDos |-> loop.list])))

Create == Enter("Create") \/ CreateBody

Read == Enter("Read") \/ ReadBody

Update == Enter("Update") \/ UpdateBody

Delete == Enter("Delete") \/ DeleteBody

ReadAll == Enter("ReadAll") \/ ReadAllBody

Next == Create \/ Read \/ Update \/ Delete \/ ReadAll

Spec == Init /\ [][Next]_vars

----------------------------------------------------------------------------
(* The properties *)

\* The identifiers of the rows the table holds.
StoredIds == { row.ID : row \in table }

\* The step just taken ran the body of handler o and no storage call failed in it.
Ran(o) == out.step = "body" /\ out.op = o /\ out.fault = "none"

Codes == {"InvalidArgument", "NotFound", "Unimplemented", "Internal"}

\* C1: in each of the five handlers a request whose api is non-empty and not
\* "v1" is answered Unimplemented by a step that takes no connection and leaves
\* the table as it was; a request whose api is "" or "v1" is never answered
\* Unimplemented.
C1_VersionGuard ==
    [][ out'.step = "enter" =>
          IF out'.api \in {"", "v1"}
          THEN out'.resp = Nil \/ out'.resp.code # "Unimplemented"
          ELSE /\ out'.resp # Nil
               /\ out'.resp.code = "Unimplemented"
               /\ inUse' = inUse
               /\ running' = running
               /\ table' = table
               /\ lastId' = lastId ]_vars

C1_Witness ==
    /\ out.step = "enter"
    /\ out.op = "Delete"
    /\ out.api = "v2"
    /\ out.resp # Nil
    /\ out.resp.code = "Unimplemented"
    /\ table # {}

\* The items ReadAll is to return for the rows of tbl: one per row, with the
\* row's id, title, description and reminder.
ItemOf(row) ==
    [Id |-> row.ID, Title |-> row.Title, Description |-> row.Description,
     Reminder |-> [Seconds |-> row.Reminder.sec, Nanos |-> row.Reminder.nsec]]

\* C2: a ReadAll that reaches the table answers OK with exactly one item per
\* stored row, carrying the row's id, title, description and reminder (and with
\* the empty list for the empty table).
C2_ReadAllReturnsTable ==
    Ran("ReadAll") =>
        /\ out.resp.code = "OK"
        /\ Len(out.resp.val.ToDos) = Cardinality(table)
        /\ { out.resp.val.ToDos[i] : i \in 1..Len(out.resp.val.ToDos) }
             = { ItemOf(row) : row \in table }

\* C3: a Read of an identifier that Create returned, with no Update or Delete
\* of that identifier since, answers OK with that identifier and the title,
\* description and reminder that were submitted to Create.
C3_CreateThenRead ==
    (Ran("Read") /\ out.id \in DOMAIN submitted) =>
        /\ out.resp.code = "OK"
        /\ out.resp.val.Api = "v1"
        /\ out.resp.val.ToDo =
             [Id |-> out.id,
              Title |-> submitted[out.id].Title,
              Description |-> submitted[out.id].Description,
              Reminder |-> submitted[out.id].Reminder]

\* A Read answered the second identifier as submitted, after another
\* identifier had been updated or deleted.
C3_Witness ==
    /\ Ran("Read")
    /\ out.id = 2
    /\ out.id \in DOMAIN submitted
    /\ 1 \notin DOMAIN submitted
    /\ out.resp.code = "OK"
    /\ out.resp.val.ToDo.Reminder.Nanos = 999999999

\* C4: no connection stays checked out on behalf of a handler that has
\* returned: the connections checked out are exactly one per handler that is
\* still running, so none is checked out once every request has completed.
C4_ConnectionsReleased ==
    /\ inUse = InFlight
    /\ InFlight = 0 => inUse = 0

C4_Witness ==
    /\ out.step = "body"
    /\ out.resp.code = "InvalidArgument"
    /\ InFlight = 0
    /\ inUse = 0

\* C5: an Update (with a convertible reminder) whose identifier has no row is
\* answered NotFound and leaves every row as it was and adds none.
C5_UpdateMissing ==
    [][ ( /\ out'.step = "body" /\ out'.op = "Update" /\ out'.fault = "none"
          /\ GetReminder(out'.todo) \notin InvalidReminders
          /\ out'.id \notin StoredIds )
        => (out'.resp.code = "NotFound" /\ table' = table) ]_vars

C5_Witness ==
    /\ Ran("Update")
    /\ out.resp.code = "NotFound"
    /\ out.id \notin StoredIds
    /\ table # {}

\* C6: a Delete of an identifier that has a row is answered OK with count 1 and
\* removes that row and no other; a Delete of an identifier that has no row (so
\* a second Delete right after the first) is answered NotFound and changes
\* nothing.
C6_DeleteTwice ==
    [][ (out'.step = "body" /\ out'.op = "Delete" /\ out'.fault = "none") =>
          IF out'.id \in StoredIds
          THEN /\ out'.resp = OK([Api |-> "v1", Deleted |-> 1])
               /\ table' = { row \in table : row.ID # out'.id }
          ELSE /\ out'.resp.code = "NotFound"
               /\ table' = table ]_vars

\* A Delete of an identifier that was created and deleted before was answered NotFound.
C6_Witness ==
    /\ Ran("Delete")
    /\ out.resp.code = "NotFound"
    /\ out.id <= lastId
    /\ out.id \notin StoredIds
    /\ table # {}

\* C7: a Read of an identifier that has no row is answered NotFound and leaves
\* the table as it was.
C7_ReadMissing ==
    [][ (out'.step = "body" /\ out'.op = "Read" /\ out'.fault = "none"
         /\ out'.id \notin StoredIds)
        => (out'.resp.code = "NotFound" /\ table' = table) ]_vars

\* A Read was answered NotFound while the table held another row.
C7_Witness ==
    /\ Ran("Read")
    /\ out.resp.code = "NotFound"
    /\ out.id > lastId
    /\ table # {}

\* C8: a Create or an Update whose ToDo carries a reminder that does not
\* convert is answered InvalidArgument and neither inserts nor modifies a row.
C8_InvalidReminder ==
    [][ ( /\ out'.step = "body" /\ out'.op \in {"Create", "Update"}
          /\ out'.todo # Nil
          /\ out'.todo.Reminder \in InvalidReminders )
        => ( /\ out'.resp.code = "InvalidArgument"
             /\ table' = table
             /\ lastId' = lastId ) ]_vars

C8_Witness ==
    /\ out.step = "body"
    /\ out.op = "Update"
    /\ out.todo # Nil
    /\ out.todo.Reminder = [Seconds |-> 0, Nanos |-> NanosPerSecond]
    /\ out.id \in StoredIds
    /\ out.resp.code = "InvalidArgument"

\* C9: every request ends with a response or with an error of one of the four
\* codes; no handler ends in a panic.
C9_AlwaysReturns ==
    /\ ~crashed
    /\ out.resp # Nil => out.resp.code \in Codes \cup {"OK"}

\* C10: the pool never deadlocks: no handler that holds a connection waits for
\* the pool to grant it another one, so whenever handlers are running, one of
\* them can run to its end with the connection it holds.
C10_NoPoolDeadlock ==
    InFlight > 0 => \E o \in Ops : running[o] > 0 /\ (o = "Read" => PoolHasFree)

====
